---- MODULE Spec2Model ----
(***************************************************************************)
(* beep_melody: the RTTTL-style melody player of src/beep_melody.c.        *)
(*                                                                         *)
(* A C string is a sequence of character codes; the terminating NUL is     *)
(* what CharAt reads one past the last element.  A pointer into a string   *)
(* is a 1-based index into it and NULL is 0.                               *)
(***************************************************************************)
EXTENDS Integers, Sequences, FiniteSets, TLC

(***************************************************************************)
(* Characters                                                              *)
(***************************************************************************)

\* ASCII runs in code order; each run starts at the code given with it.
Digits == << "0", "1", "2", "3", "4", "5", "6", "7", "8", "9" >>

Uppers ==
    << "A", "B", "C", "D", "E", "F", "G", "H", "I", "J", "K", "L", "M", "N",
       "O", "P", "Q", "R", "S", "T", "U", "V", "W", "X", "Y", "Z" >>

Lowers ==
    << "a", "b", "c", "d", "e", "f", "g", "h", "i", "j", "k", "l", "m", "n",
       "o", "p", "q", "r", "s", "t", "u", "v", "w", "x", "y", "z" >>

\* The position of an element in a tuple of distinct elements.
IndexIn(t, e) == CHOOSE k \in 1..Len(t) : t[k] = e

\* The ASCII code of each one-character string the model uses.
OrdOf ==
    [ch \in {Digits[k] : k \in 1..Len(Digits)} |-> 47 + IndexIn(Digits, ch)] @@
    [ch \in {Uppers[k] : k \in 1..Len(Uppers)} |-> 64 + IndexIn(Uppers, ch)] @@
    [ch \in {Lowers[k] : k \in 1..Len(Lowers)} |-> 96 + IndexIn(Lowers, ch)] @@
    (" " :> 32) @@ ("#" :> 35) @@ ("," :> 44) @@ ("." :> 46) @@ (":" :> 58) @@
    ("=" :> 61) @@ ("{" :> 123)

Ord(ch) == OrdOf[ch]

\* A C string literal, written as a tuple of one-character strings.
Str(t) == [k \in 1..Len(t) |-> Ord(t[k])]

\* *(s + pos - 1): the character at a position, NUL at the terminator.
CharAt(str, pos) == IF pos \in 1..Len(str) THEN str[pos] ELSE 0

\* isspace() in the C locale: space, \t, \n, \v, \f, \r.
IsSpace(ch) == ch = Ord(" ") \/ ch \in 9..13

\* isdigit()
IsDigit(ch) == ch >= Ord("0") /\ ch <= Ord("9")

\* strchr(p, ch) for a non-NULL p: the first position at or after p holding
\* ch, or NULL (0).
StrChr(str, pos, ch) ==
    IF \E k \in pos..Len(str) : str[k] = ch
    THEN CHOOSE k \in pos..Len(str) :
            str[k] = ch /\ \A j \in pos..(k - 1) : str[j] # ch
    ELSE 0

\* A skip_ws() that skips nothing.
skip_ws_None(str, pos) == pos

\* skip_ws(): the first position at or after pos that holds no whitespace
\* (the NUL terminator is not whitespace, so the scan stops there at last).
skip_ws(str, pos) ==
    CHOOSE k \in pos..(Len(str) + 1) :
        ~IsSpace(CharAt(str, k)) /\ \A j \in pos..(k - 1) : IsSpace(CharAt(str, j))

\* sizeof(buf) in play(): char buf[32].
BufSize == 32

\* (q - p) >= sizeof(buf): the ptrdiff_t difference is converted to size_t
\* for the comparison, so a negative difference compares as a huge value.
SizeGE(diff, size) == diff < 0 \/ diff >= size

(***************************************************************************)
(* parse_note                                                              *)
(***************************************************************************)

\* static short tone[4][12]: rows are octaves 4..7, columns C, C#, .. B.
tone ==
    << << 262, 277, 294, 311, 330, 349, 370, 392, 415, 440, 466, 494 >>,
       << 523, 554, 587, 622, 659, 698, 740, 784, 831, 880, 932, 988 >>,
       << 1047, 1109, 1175, 1245, 1319, 1397, 1480, 1568, 1661, 1760, 1865, 1976 >>,
       << 2093, 2217, 2349, 2489, 2637, 2794, 2960, 3136, 3322, 3520, 3729, 3951 >> >>

\* static signed char note_tone_col[2][7]: rows sharp=0, sharp=1; columns
\* A, B, C, D, E, F, G.
note_tone_col ==
    << << 9, 11, 0, 2, 4, 5, 7 >>,
       << 10, 11, 1, 3, 4, 6, 8 >> >>

\* A mis-typed table: the sharp row repeats the natural row.
ToneOf_NoSharp(cur_octave, sharp, note) ==
    tone[(cur_octave - 4) + 1][note_tone_col[1][(note - Ord("A")) + 1] + 1]

\* tone[cur_octave - 4][note_tone_col[sharp][note - 'A']] (0-based in C).
ToneOf(cur_octave, sharp, note) ==
    tone[(cur_octave - 4) + 1][note_tone_col[sharp + 1][(note - Ord("A")) + 1] + 1]

\* "Get duration": the switch on the first character.  ok = FALSE is the
\* "expected duration 32" return; next is the position p points at after.
NoteDuration(str, dflt_duration) ==
    LET ch == CharAt(str, 1) IN
    IF ch = Ord("1") /\ CharAt(str, 2) = Ord("6")
        THEN [ok |-> TRUE, cur_duration |-> 16, next |-> 3]
    ELSE IF ch \in {Ord("1"), Ord("2"), Ord("4"), Ord("8")}
        THEN [ok |-> TRUE, cur_duration |-> ch - Ord("0"), next |-> 2]
    ELSE IF ch = Ord("3")
        THEN IF CharAt(str, 2) # Ord("2")
             THEN [ok |-> FALSE, cur_duration |-> 0, next |-> 3]
             ELSE [ok |-> TRUE, cur_duration |-> 32, next |-> 3]
    ELSE [ok |-> TRUE, cur_duration |-> dflt_duration, next |-> 1]

\* toupper of 'a'..'z', as lines 123-124 do it.
UpCase(ch) ==
    IF ch >= Ord("a") /\ ch <= Ord("z") THEN ch - (Ord("a") - Ord("A")) ELSE ch

\* parse_note(ni, s, &freq, &duration_usec); dflt_duration, dflt_octave and
\* whole_ms are the globals duration, octave and whole_note_ms it reads.  rc is the return value; freq and duration_usec
\* are the out-parameters after the call (freq0, usec0 before it: a failing
\* call leaves freq alone and may already have stored duration_usec).
parse_note(str, dflt_duration, dflt_octave, whole_ms, freq0, usec0) ==
    LET d == NoteDuration(str, dflt_duration) IN
    IF ~d.ok THEN [rc |-> -1, freq |-> freq0, duration_usec |-> usec0]
    ELSE
    LET usec1 == (whole_ms * 1000) \div d.cur_duration
        note  == UpCase(CharAt(str, d.next))
        p1    == d.next + 1
    IN
    IF ~((note >= Ord("A") /\ note <= Ord("G")) \/ note = Ord("P"))
    THEN [rc |-> -1, freq |-> freq0, duration_usec |-> usec1]
    ELSE
    LET sharp == IF CharAt(str, p1) = Ord("#") THEN 1 ELSE 0
        p2    == p1 + sharp
        dot   == IF CharAt(str, p2) = Ord(".") THEN 1 ELSE 0
        p3    == p2 + dot
        usec2 == IF dot = 1 THEN usec1 + (usec1 \div 2) ELSE usec1
        oc    == CharAt(str, p3)
    IN
    IF oc # 0 /\ (oc < Ord("4") \/ oc > Ord("7"))
    THEN [rc |-> -1, freq |-> freq0, duration_usec |-> usec2]
    ELSE
    LET cur_octave == IF oc = 0 THEN dflt_octave ELSE oc - Ord("0") IN
    [rc |-> 0,
     freq |-> IF note = Ord("P") THEN 0 ELSE ToneOf(cur_octave, sharp, note),
     duration_usec |-> usec2]

(***************************************************************************)
(* The defaults section                                                    *)
(***************************************************************************)

\* The while loop of char_eq_num: digits are accumulated as long as the
\* value so far is below 999.
RECURSIVE AccumDigits(_, _, _)
AccumDigits(str, pos, val) ==
    IF IsDigit(CharAt(str, pos)) /\ val < 999
    THEN AccumDigits(str, pos + 1, (val * 10) + (CharAt(str, pos) - Ord("0")))
    ELSE [next |-> pos, n |-> val]

\* char_eq_num(s, &c, &n, &err) from position pos of str.  next is the
\* returned pointer (0 for NULL); c and n are the out-parameters after the
\* call (c0, n0 before it).
char_eq_num(str, pos, c0, n0) ==
    LET s1 == skip_ws(str, pos) IN
    IF CharAt(str, s1) = 0
    THEN [next |-> 0, c |-> c0, n |-> n0, err |-> 0]
    ELSE
    LET ch == CharAt(str, s1)
        s2 == skip_ws(str, s1 + 1)
    IN
    IF CharAt(str, s2) # Ord("=")
    THEN [next |-> 0, c |-> ch, n |-> n0, err |-> -1]
    ELSE
    LET s3 == skip_ws(str, s2 + 1) IN
    IF ~IsDigit(CharAt(str, s3))
    THEN [next |-> 0, c |-> ch, n |-> n0, err |-> -1]
    ELSE
    LET acc == AccumDigits(str, s3 + 1, CharAt(str, s3) - Ord("0")) IN
    IF CharAt(str, acc.next) # 0 /\ CharAt(str, acc.next) # Ord(",")
    THEN [next |-> 0, c |-> ch, n |-> acc.n, err |-> -1]
    ELSE [next |-> IF CharAt(str, acc.next) = 0 THEN acc.next ELSE acc.next + 1,
          c |-> ch, n |-> acc.n, err |-> 0]

\* The 26 slots of num[] / defaults[], indexed as in C.
Slots == 0..25

\* DEFAULTS(c): defaults[(c) - 'a'] for a lower-case letter.
DEFAULTS(defaults, ch) == defaults[Ord(ch) - Ord("a")]

\* set_defaults(defaults): ok = FALSE is the return of -1, and then the
\* globals assigned before the failing check are already stored.
set_defaults(defaults, octave0, duration0, tempo0, whole0) ==
    LET o == DEFAULTS(defaults, "o")
        d == DEFAULTS(defaults, "d")
        b == DEFAULTS(defaults, "b")
    IN
    IF o < 0 \/ o < 4 \/ o > 7
    THEN [ok |-> FALSE, octave |-> octave0, duration |-> duration0,
          tempo |-> tempo0, whole_note_ms |-> whole0]
    ELSE IF d < 0 \/ d \notin {1, 2, 4, 8, 16, 32}
    THEN [ok |-> FALSE, octave |-> o, duration |-> duration0,
          tempo |-> tempo0, whole_note_ms |-> whole0]
    ELSE IF b < 0 \/ b < 40 \/ b > 200
    THEN [ok |-> FALSE, octave |-> o, duration |-> d,
          tempo |-> tempo0, whole_note_ms |-> whole0]
    ELSE [ok |-> TRUE, octave |-> o, duration |-> d, tempo |-> b,
          whole_note_ms |-> (60000 * 4) \div b]

(***************************************************************************)
(* Inputs                                                                  *)
(***************************************************************************)

\* At most this many letter=number pairs in a defaults section.
MaxPairs == 3

\* At most this many tokens in a note list.
MaxNotes == 2

\* At most this many device writes fail in one run.
MaxWriteFailures == 1

\* The multiples of this stride within 40..200 are the tempos the note
\* resolver is tried under.
TempoStride == 27

RECURSIVE Join(_, _)
\* The strings of a tuple joined by a separator character.
Join(strs, sep) ==
    IF Len(strs) = 0 THEN << >>
    ELSE IF Len(strs) = 1 THEN strs[1]
    ELSE strs[1] \o << sep >> \o Join(Tail(strs), sep)

\* All tuples of at most max elements of a set.
TuplesUpTo(set, max) == UNION {[1..k -> set] : k \in 0..max}

Blanks(k) == [j \in 1..k |-> Ord(" ")]

\* The pairs a defaults section is made of.
PairTokens ==
    { Str(<< "o", "=", "5" >>), Str(<< "o", "=", "8" >>),
      Str(<< "d", "=", "8" >>), Str(<< "d", "=", "3" >>),
      Str(<< "b", "=", "1", "2", "5" >>), Str(<< " ", "b", " ", "=", " ", "6", "3" >>),
      Str(<< "b", "=", "1", "0", "0", "0" >>), Str(<< "b", "=", "1", "2", "3", "4", "5" >>),
      Str(<< "o", "5" >>), Str(<< "x", "=", "1" >>),
      Str(<< "O", "=", "5" >>), Str(<< "=", "=", "5" >>), Str(<< "{", "=", "5" >>) }

\* A note as written in the list: a token (core) with pre blanks before it
\* and post blanks after it.
Writing(pre, core, post) == [pre |-> pre, core |-> core, post |-> post]

RawNote(w) == Blanks(w.pre) \o w.core \o Blanks(w.post)

\* The notes a note list is made of: tokens parse_note() accepts and
\* rejects, a rest, a token of 32 characters, and tokens with blanks around.
NoteWritings ==
    { Writing(0, core, 0) :
        core \in { Str(<< "c" >>), Str(<< "4", "d", ".", "6" >>),
                   Str(<< "X", "9" >>), Str(<< "p" >>),
                   Str(<< "1", "6", "a", "#" >>), Str(<< "3", "c" >>),
                   Str(<< "c", "9" >>),
                   [k \in 1..BufSize |-> Ord("c")] } }
    \cup
    { Writing(b[1], core, b[2]) :
        b \in { << 1, 0 >>, << 0, 1 >>, << 2, 1 >> },
        core \in { Str(<< "c" >>), Str(<< "4", "d", ".", "6" >>) } }

OkPairs ==
    << Str(<< "d", "=", "8" >>), Str(<< "o", "=", "5" >>),
       Str(<< "b", "=", "1", "2", "5" >>) >>

OneNote == << Writing(0, Str(<< "c" >>), 0) >>

\* The note list "4d.6,X9,c6".
ThreeNotes ==
    << Writing(0, Str(<< "4", "d", ".", "6" >>), 0),
       Writing(0, Str(<< "X", "9" >>), 0),
       Writing(0, Str(<< "c", "6" >>), 0) >>

\* A tuple with one more element put in before position k.
InsertAt(t, k, e) == SubSeq(t, 1, k - 1) \o << e >> \o SubSeq(t, k, Len(t))

Melody(form, name, pairs, notes) ==
    [form |-> form, name |-> name, pairs |-> pairs, notes |-> notes]

\* The melodies tried.  With a name: any defaults section before one note,
\* a good section with one more pair put in anywhere, and any note list
\* after a good section.  Without a name: the good section before any note
\* list.  And lines without any colon.
Melodies ==
    { Melody("named", Str(<< "n" >>), ps, OneNote) :
        ps \in TuplesUpTo(PairTokens, MaxPairs) }
    \cup
    { Melody("named", Str(<< "n" >>), InsertAt(OkPairs, k, t), OneNote) :
        k \in 1..(Len(OkPairs) + 1), t \in PairTokens }
    \cup
    { Melody(f, Str(<< "n" >>), OkPairs, ns) :
        f \in {"named", "nameless"},
        ns \in TuplesUpTo(NoteWritings, MaxNotes) \cup {ThreeNotes} }
    \cup
    { Melody("bare", nm, << >>, << >>) :
        nm \in { << >>, Str(<< "n" >>), Str(<< "o", "=", "5" >>) } }

NoteList(m) == Join([k \in 1..Len(m.notes) |-> RawNote(m.notes[k])], Ord(","))

\* The line of text main() hands to play() for a melody.
Render(m) ==
    IF m.form = "bare" THEN m.name
    ELSE (IF m.form = "named" THEN m.name \o << Ord(":") >> ELSE << >>)
         \o Join(m.pairs, Ord(",")) \o << Ord(":") >> \o NoteList(m)

(***************************************************************************)
(* play                                                                    *)
(***************************************************************************)

VARIABLES
    src,            \* the melody as composed (what the input was made of)
    melody,         \* char melody[1024] of main(): the line read
    pc,             \* where play() stands
    mel,            \* play()'s pointer melody
    p,              \* play()'s pointer p
    buf,            \* char buf[32]
    s,              \* parse_char_eq_num_str()'s pointer s into buf
    defaults,       \* int defaults[26] (num[] in parse_char_eq_num_str)
    c, n, err,      \* the locals char_eq_num() writes
    used,           \* the indexes num[] has been accessed with
    octave, duration, tempo, whole_note_ms,   \* the static defaults
    i,              \* the note index
    freq, duration_usec,
    resolved,       \* the notes parse_note() has accepted, in order
    log,            \* the device writes and sleeps performed, in order
    failures,       \* the device writes that have failed
    status          \* play()'s return value, once it has returned

vars == << src, melody, pc, mel, p, buf, s, defaults, c, n, err, used,
           octave, duration, tempo, whole_note_ms, i, freq, duration_usec,
           resolved, log, failures, status >>

inputVars == << src, melody >>
globalVars == << octave, duration, tempo, whole_note_ms >>
pairVars == << s, defaults, c, n, err, used >>
noteVars == << i, freq, duration_usec, resolved >>
deviceVars == << log, failures >>

NoStatus == "none"

\* The state before play() is called with a line.
Start(m) ==
    /\ src = m
    /\ melody = Render(m)
    /\ pc = "start"
    /\ mel = 1
    /\ p = 0
    /\ buf = << >>
    /\ s = 0
    /\ defaults = [k \in Slots |-> 0]
    /\ c = 0 /\ n = 0 /\ err = 0
    /\ used = {}
    /\ octave = 0 /\ duration = 0 /\ tempo = 0 /\ whole_note_ms = 0
    /\ i = 0
    /\ freq = 0 /\ duration_usec = 0
    /\ resolved = << >>
    /\ log = << >>
    /\ failures = 0
    /\ status = NoStatus

Init == \E m \in Melodies : Start(m)

\* return rc;
Return(rc) == pc' = "done" /\ status' = rc

\* melody + n with n = strlen(melody): the terminator of the line.
End == Len(melody) + 1

\* Lines 313-323 on a line without ':': p is NULL when strchr(p, ':') is
\* called, before the test of p.  The call either traps, or (its result
\* being unused on that path) the test of p is reached and reports.
PlayNoColon ==
    /\ pc = "start"
    /\ StrChr(melody, 1, Ord(":")) = 0
    /\ \E outcome \in {"trap", "checked"} :
          IF outcome = "trap"
          THEN pc' = "crashed" /\ UNCHANGED status
          ELSE Return(-1)
    /\ UNCHANGED << inputVars, mel, p, buf, pairVars, globalVars, noteVars, deviceVars >>

\* Lines 313-328: the second ':' is missing or 32 or more characters away.
PlayTooLongDefaults ==
    /\ pc = "start"
    /\ StrChr(melody, 1, Ord(":")) # 0
    /\ LET p1 == StrChr(melody, 1, Ord(":")) + 1
           q  == StrChr(melody, p1, Ord(":"))
       IN /\ SizeGE(q - p1, BufSize)
          /\ mel' = p1 - 1
          /\ p' = p1
    /\ Return(-1)
    /\ UNCHANGED << inputVars, buf, pairVars, globalVars, noteVars, deviceVars >>

\* Lines 313-335: the defaults section is copied to buf, p moves past it,
\* and parse_char_eq_num_str() starts with every slot of num[] at -1.
PlayEnter ==
    /\ pc = "start"
    /\ StrChr(melody, 1, Ord(":")) # 0
    /\ LET p1 == StrChr(melody, 1, Ord(":")) + 1
           q  == StrChr(melody, p1, Ord(":"))
       IN /\ ~SizeGE(q - p1, BufSize)
          /\ mel' = p1 - 1
          /\ buf' = SubSeq(melody, p1, q - 1)
          /\ p' = q + 1
    /\ defaults' = [k \in Slots |-> -1]
    /\ s' = 1
    /\ pc' = "defaults"
    /\ UNCHANGED << inputVars, c, n, err, used, globalVars, noteVars, deviceVars, status >>

\* The call of char_eq_num() that the while loop of
\* parse_char_eq_num_str() is about to make.
NextPair == char_eq_num(buf, s, c, n)

\* Lines 229-235 with c - 'a' inside num[]: the first value of a letter is
\* kept, a later one only warned about.
ParsePair ==
    /\ pc = "defaults"
    /\ NextPair.next # 0
    /\ LET r == NextPair
           k == r.c - Ord("a")
       IN /\ k \in Slots
          /\ used' = used \cup {k}
          /\ defaults' = IF defaults[k] < 0 THEN [defaults EXCEPT ![k] = r.n]
                         ELSE defaults
          /\ c' = r.c /\ n' = r.n /\ err' = r.err /\ s' = r.next
    /\ UNCHANGED << inputVars, pc, mel, p, buf, globalVars, noteVars, deviceVars, status >>

\* Lines 229-235 with c - 'a' outside num[]: the read and the write are
\* outside the array.  The access either traps, or touches memory that is
\* not num[] and the loop goes on.
ParsePairOutside ==
    /\ pc = "defaults"
    /\ NextPair.next # 0
    /\ LET r == NextPair
           k == r.c - Ord("a")
       IN /\ k \notin Slots
          /\ used' = used \cup {k}
          /\ c' = r.c /\ n' = r.n /\ err' = r.err /\ s' = r.next
    /\ \E outcome \in {"trap", "stray"} :
          pc' = IF outcome = "trap" THEN "crashed" ELSE pc
    /\ UNCHANGED << inputVars, mel, p, buf, defaults, globalVars, noteVars, deviceVars, status >>

\* Lines 229, 236 and 335-338: char_eq_num() returns NULL with err set.
DefaultsMalformed ==
    /\ pc = "defaults"
    /\ NextPair.next = 0
    /\ NextPair.err # 0
    /\ c' = NextPair.c /\ n' = NextPair.n /\ err' = NextPair.err /\ s' = 0
    /\ Return(-1)
    /\ UNCHANGED << inputVars, mel, p, buf, defaults, used, globalVars, noteVars, deviceVars >>

\* The call set_defaults(defaults) of line 340.
Resolved == set_defaults(defaults, octave, duration, tempo, whole_note_ms)

\* Lines 229, 236 and 340-341: the section parsed, set_defaults() fails.
DefaultsInvalid ==
    /\ pc = "defaults"
    /\ NextPair.next = 0
    /\ NextPair.err = 0
    /\ ~Resolved.ok
    /\ c' = NextPair.c /\ n' = NextPair.n /\ err' = NextPair.err /\ s' = 0
    /\ octave' = Resolved.octave /\ duration' = Resolved.duration
    /\ tempo' = Resolved.tempo /\ whole_note_ms' = Resolved.whole_note_ms
    /\ Return(-1)
    /\ UNCHANGED << inputVars, mel, p, buf, defaults, used, noteVars, deviceVars >>

\* Lines 229, 236 and 340-344: the defaults are set and the note loop
\* starts with i = 1.
DefaultsSet ==
    /\ pc = "defaults"
    /\ NextPair.next = 0
    /\ NextPair.err = 0
    /\ Resolved.ok
    /\ c' = NextPair.c /\ n' = NextPair.n /\ err' = NextPair.err /\ s' = 0
    /\ octave' = Resolved.octave /\ duration' = Resolved.duration
    /\ tempo' = Resolved.tempo /\ whole_note_ms' = Resolved.whole_note_ms
    /\ i' = 1
    /\ pc' = "loop"
    /\ UNCHANGED << inputVars, mel, p, buf, defaults, used, freq, duration_usec,
                    resolved, deviceVars, status >>

(***************************************************************************)
(* The note loop                                                           *)
(***************************************************************************)

\* Lines 345-348: where the token of this iteration starts (p after
\* skip_ws) and the position q just past it (the next ',' or the end).
TokenStart == skip_ws(melody, p)

TokenStop ==
    IF StrChr(melody, TokenStart, Ord(",")) = 0 THEN End
    ELSE StrChr(melody, TokenStart, Ord(","))

\* Lines 353-354: the token copied to buf.
Token == SubSeq(melody, TokenStart, TokenStop - 1)

\* The call parse_note(i, buf, &freq, &duration_usec) of line 357.
Parsed == parse_note(Token, duration, octave, whole_note_ms, freq, duration_usec)

\* Line 344: the loop condition p < melody + n fails; return 0.
LoopExit ==
    /\ pc = "loop"
    /\ ~(p < End)
    /\ Return(0)
    /\ UNCHANGED << inputVars, mel, p, buf, pairVars, globalVars, noteVars, deviceVars >>

\* Lines 349-352: a token of 32 characters or more ends play() with -1.
NoteTooLong ==
    /\ pc = "loop"
    /\ p < End
    /\ SizeGE(TokenStop - TokenStart, BufSize)
    /\ p' = TokenStart
    /\ Return(-1)
    /\ UNCHANGED << inputVars, mel, buf, pairVars, globalVars, noteVars, deviceVars >>

\* A loop that gives up at the first token parse_note() rejects.
NoteSkip_Abort ==
    /\ pc = "loop"
    /\ p < End
    /\ ~SizeGE(TokenStop - TokenStart, BufSize)
    /\ Parsed.rc # 0
    /\ buf' = Token
    /\ p' = TokenStop + 1
    /\ duration_usec' = Parsed.duration_usec
    /\ Return(-1)
    /\ UNCHANGED << inputVars, mel, pairVars, globalVars, i, freq, resolved, deviceVars >>

\* Lines 353-357: parse_note() rejects the token.
NoteSkip ==
    /\ pc = "loop"
    /\ p < End
    /\ ~SizeGE(TokenStop - TokenStart, BufSize)
    /\ Parsed.rc # 0
    /\ buf' = Token
    /\ p' = TokenStop + 1
    /\ duration_usec' = Parsed.duration_usec
    /\ pc' = "skipped"
    /\ UNCHANGED << inputVars, mel, pairVars, globalVars, i, freq, resolved,
                    deviceVars, status >>

\* Line 358 and the i++ of the loop: continue.
Continue ==
    /\ pc = "skipped"
    /\ i' = i + 1
    /\ pc' = "loop"
    /\ UNCHANGED << inputVars, mel, p, buf, pairVars, globalVars, freq, duration_usec,
                    resolved, deviceVars, status >>

\* Lines 353-359: parse_note() accepts the token; beeper_tone() is called.
NoteAccept ==
    /\ pc = "loop"
    /\ p < End
    /\ ~SizeGE(TokenStop - TokenStart, BufSize)
    /\ Parsed.rc = 0
    /\ buf' = Token
    /\ p' = TokenStop + 1
    /\ freq' = Parsed.freq
    /\ duration_usec' = Parsed.duration_usec
    /\ resolved' = Append(resolved, [freq |-> Parsed.freq,
                                     duration_usec |-> Parsed.duration_usec])
    /\ pc' = "tone_on"
    /\ UNCHANGED << inputVars, mel, pairVars, globalVars, i, deviceVars, status >>

(***************************************************************************)
(* beeper_tone and the gap                                                 *)
(***************************************************************************)

WriteEv(value, ok) == [op |-> "write", arg |-> value, ok |-> ok]
SleepEv(usec) == [op |-> "usleep", arg |-> usec, ok |-> TRUE]

\* write(fd, &ev, sizeof(ev)) with ev.value = value: the write succeeds or
\* fails, and its result is not looked at.
DeviceWrite(value) ==
    \E ok \in BOOLEAN :
        /\ ok \/ failures < MaxWriteFailures
        /\ failures' = IF ok THEN failures ELSE failures + 1
        /\ log' = Append(log, WriteEv(value, ok))

\* The argument of usleep() in line 360.
GapUsec(usec) == usec \div 4

\* Lines 295-298: the tone-on event.
ToneOn ==
    /\ pc = "tone_on"
    /\ DeviceWrite(freq)
    /\ pc' = "hold"
    /\ UNCHANGED << inputVars, mel, p, buf, pairVars, globalVars, noteVars, status >>

\* Line 299: usleep(duration_usec).
Hold ==
    /\ pc = "hold"
    /\ log' = Append(log, SleepEv(duration_usec))
    /\ pc' = "tone_off"
    /\ UNCHANGED << inputVars, mel, p, buf, pairVars, globalVars, noteVars, failures, status >>

\* A beeper_tone() that returns without switching the tone off.
ToneOff_Missing ==
    /\ pc = "tone_off"
    /\ pc' = "gap"
    /\ UNCHANGED << inputVars, mel, p, buf, pairVars, globalVars, noteVars, deviceVars, status >>

\* Lines 300-301: the tone-off event.
ToneOff ==
    /\ pc = "tone_off"
    /\ DeviceWrite(0)
    /\ pc' = "gap"
    /\ UNCHANGED << inputVars, mel, p, buf, pairVars, globalVars, noteVars, status >>

\* Line 360 and the i++ of the loop: usleep(duration_usec / 4).
Gap ==
    /\ pc = "gap"
    /\ log' = Append(log, SleepEv(GapUsec(duration_usec)))
    /\ i' = i + 1
    /\ pc' = "loop"
    /\ UNCHANGED << inputVars, mel, p, buf, pairVars, globalVars, freq, duration_usec,
                    resolved, failures, status >>

Next ==
    \/ PlayNoColon
    \/ PlayTooLongDefaults
    \/ PlayEnter
    \/ ParsePair
    \/ ParsePairOutside
    \/ DefaultsMalformed
    \/ DefaultsInvalid
    \/ DefaultsSet
    \/ LoopExit
    \/ NoteTooLong
    \/ NoteSkip
    \/ Continue
    \/ NoteAccept
    \/ ToneOn
    \/ Hold
    \/ ToneOff
    \/ Gap

Spec == Init /\ [][Next]_vars

(***************************************************************************)
(* The note resolver on its own                                            *)
(***************************************************************************)

\* The tokens of the grammar [duration][A-G|P][#][.][octave]; units = 0 and
\* oct = 0 stand for an absent duration and an absent octave.
GrammarTokens ==
    [units : {0, 1, 2, 4, 8, 16, 32},
     letter : {Uppers[k] : k \in 1..7} \cup {"P"} \cup {Lowers[k] : k \in 1..7} \cup {"p"},
     sharp : {0, 1}, dot : {0, 1}, oct : {0, 4, 5, 6, 7}]

DigitChar(d) == Ord("0") + d

\* A grammar token as text.
TokenText(t) ==
    (IF t.units = 0 THEN << >>
     ELSE IF t.units < 10 THEN << DigitChar(t.units) >>
     ELSE << DigitChar(t.units \div 10), DigitChar(t.units % 10) >>)
    \o << Ord(t.letter) >>
    \o (IF t.sharp = 1 THEN << Ord("#") >> ELSE << >>)
    \o (IF t.dot = 1 THEN << Ord(".") >> ELSE << >>)
    \o (IF t.oct = 0 THEN << >> ELSE << DigitChar(t.oct) >>)

\* The lowest and the highest tempo, and the multiples of the stride between.
Tempos == {40, 200} \cup {b \in 40..200 : b % TempoStride = 0}

\* defaults[] as a section giving o, d and b leaves it.
DefaultsOf(o, d, b) ==
    [k \in Slots |->
        IF k = Ord("o") - Ord("a") THEN o
        ELSE IF k = Ord("d") - Ord("a") THEN d
        ELSE IF k = Ord("b") - Ord("a") THEN b
        ELSE -1]

\* parse_note() is about to be called on a grammar token, the defaults
\* having been set by set_defaults() from o, d and b.
InitNote ==
    \E t \in GrammarTokens, o \in 4..7, d \in {1, 2, 4, 8, 16, 32}, b \in Tempos :
        LET sd == set_defaults(DefaultsOf(o, d, b), 0, 0, 0, 0) IN
        /\ src = t
        /\ melody = TokenText(t)
        /\ buf = TokenText(t)
        /\ pc = "note"
        /\ defaults = DefaultsOf(o, d, b)
        /\ octave = sd.octave /\ duration = sd.duration
        /\ tempo = sd.tempo /\ whole_note_ms = sd.whole_note_ms
        /\ mel = 1 /\ p = 0 /\ s = 0
        /\ c = 0 /\ n = 0 /\ err = 0
        /\ used = {}
        /\ i = 1
        /\ freq = 0 /\ duration_usec = 0
        /\ resolved = << >>
        /\ log = << >>
        /\ failures = 0
        /\ status = NoStatus

\* Line 357: parse_note(i, buf, &freq, &duration_usec).
ResolveNote ==
    /\ pc = "note"
    /\ LET r == parse_note(buf, duration, octave, whole_note_ms, freq, duration_usec)
       IN /\ freq' = r.freq
          /\ duration_usec' = r.duration_usec
          /\ status' = r.rc
    /\ pc' = "note_done"
    /\ UNCHANGED << inputVars, mel, p, buf, pairVars, globalVars, i, resolved, deviceVars >>

NextNote == ResolveNote

SpecNote == InitNote /\ [][NextNote]_vars

(***************************************************************************)
(* What the melody format says of an input, read off the input as composed *)
(***************************************************************************)

IsLetter(ch) ==
    (ch >= Ord("a") /\ ch <= Ord("z")) \/ (ch >= Ord("A") /\ ch <= Ord("Z"))

\* The places of the letter, the '=' and the first digit of a pair
\* "letter=number" with blanks allowed before each of the three.
PairShapes(t) ==
    { sh \in (1..Len(t)) \X (1..Len(t)) \X (1..Len(t)) :
        /\ sh[1] < sh[2] /\ sh[2] < sh[3]
        /\ IsLetter(t[sh[1]])
        /\ t[sh[2]] = Ord("=")
        /\ \A j \in 1..(sh[3] - 1) : j \notin {sh[1], sh[2]} => IsSpace(t[j])
        /\ \A j \in sh[3]..Len(t) : IsDigit(t[j]) }

WellFormedPair(t) == PairShapes(t) # {}

PairKey(t) == t[(CHOOSE sh \in PairShapes(t) : TRUE)[1]]

RECURSIVE Decimal(_)
\* The number a run of digits denotes.
Decimal(ds) ==
    IF Len(ds) = 0 THEN 0
    ELSE (Decimal(SubSeq(ds, 1, Len(ds) - 1)) * 10) + (ds[Len(ds)] - Ord("0"))

PairValue(t) == Decimal(SubSeq(t, (CHOOSE sh \in PairShapes(t) : TRUE)[3], Len(t)))

\* The value the section gives a letter: that of its first pair with it.
HasKey(pairs, ch) == \E k \in 1..Len(pairs) : PairKey(pairs[k]) = Ord(ch)

FirstValue(pairs, ch) ==
    PairValue(pairs[CHOOSE k \in 1..Len(pairs) :
        /\ PairKey(pairs[k]) = Ord(ch)
        /\ \A j \in 1..(k - 1) : PairKey(pairs[j]) # Ord(ch)])

\* A defaults section with no error: every pair well formed, o, d and b
\* given, o in 4..7, d in {1,2,4,8,16,32}, b in 40..200.
ValidSection(pairs) ==
    /\ \A k \in 1..Len(pairs) : WellFormedPair(pairs[k])
    /\ HasKey(pairs, "o") /\ FirstValue(pairs, "o") \in 4..7
    /\ HasKey(pairs, "d") /\ FirstValue(pairs, "d") \in {1, 2, 4, 8, 16, 32}
    /\ HasKey(pairs, "b") /\ FirstValue(pairs, "b") \in 40..200

\* The token of a written note once the blanks before it are dropped.
Lead(w) == w.core \o Blanks(w.post)

\* What parse_note() makes of a text under given defaults.
NoteUnder(text, d, o, whole_ms) == parse_note(text, d, o, whole_ms, 0, 0)

\* What parse_note() makes of a text under the defaults in force.
NoteOf(text) == NoteUnder(text, duration, octave, whole_note_ms)

AllShort(notes) == \A k \in 1..Len(notes) : Len(RawNote(notes[k])) < BufSize

RECURSIVE AcceptedUnder(_, _, _, _)
\* The notes of a list that parse_note() accepts under given defaults, in
\* the order written.
AcceptedUnder(notes, d, o, whole_ms) ==
    IF Len(notes) = 0 THEN << >>
    ELSE LET r == NoteUnder(Lead(notes[1]), d, o, whole_ms) IN
         (IF r.rc = 0
          THEN << [freq |-> r.freq, duration_usec |-> r.duration_usec] >>
          ELSE << >>)
         \o AcceptedUnder(Tail(notes), d, o, whole_ms)

\* The same under the defaults in force.
Accepted(notes) == AcceptedUnder(notes, duration, octave, whole_note_ms)

\* The same under the defaults a valid section gives.
AcceptedFor(m) ==
    AcceptedUnder(m.notes, FirstValue(m.pairs, "d"), FirstValue(m.pairs, "o"),
                  240000 \div FirstValue(m.pairs, "b"))

\* The values of the tone events of a log, in order.
Tones(events) ==
    LET w == SelectSeq(events, LAMBDA e : e.op = "write")
    IN [k \in 1..Len(w) |-> w[k].arg]

RECURSIVE OnOff(_)
\* The tone events a list of resolved notes is played with.
OnOff(notes) ==
    IF Len(notes) = 0 THEN << >>
    ELSE << notes[1].freq, 0 >> \o OnOff(Tail(notes))

Returned == pc = "done"

(***************************************************************************)
(* Claims                                                                  *)
(***************************************************************************)

\* C1: a melody "defaults:notes" without a name segment and with a valid
\* defaults section is played as the same melody with "name:" before it is:
\* play() returns 0 (when no token is too long) after the tone events of
\* the accepted notes.  [The claim as stated; the code fails it.]
C1_NameOptional ==
    (Returned /\ src.form = "nameless" /\ ValidSection(src.pairs)
        /\ AllShort(src.notes))
    => (status = 0 /\ Tones(log) = OnOff(AcceptedFor(src)))

\* C2: a melody whose defaults section has a malformed pair, lacks o, d or
\* b, or gives one of them out of range never has a tone event written, and
\* play() returns a failure status.  [The claim as stated; the code fails
\* it.]
C2_DefaultsErrorsFatal ==
    (src.form \in {"named", "nameless"} /\ ~ValidSection(src.pairs))
    => (Tones(log) = << >> /\ (Returned => status = -1))

\* C3: when every token of the note list is shorter than 32 characters,
\* play() returns 0 and the tone events written are exactly those of the
\* tokens parse_note() accepts, in the order of the tokens: a rejected
\* token adds no tone event and does not stop the run.
C3_SkipAndContinue ==
    (Returned /\ i >= 1 /\ AllShort(src.notes))
    => /\ status = 0
       /\ resolved = Accepted(src.notes)
       /\ Tones(log) = OnOff(Accepted(src.notes))

\* C3 witness: the list "4d.6,X9,c6" has been played to the end: the first
\* and the third token sounded, the second was skipped.
C3_Witness ==
    /\ Returned /\ status = 0
    /\ src.notes = ThreeNotes
    /\ Len(resolved) = 2
    /\ Tones(log) = << 1175, 0, 1047, 0 >>

\* The event at place k of the log is the one the sequence of a resolved
\* note has there: write freq, sleep duration_usec, write 0, sleep
\* duration_usec / 4.
EventInSequence(k) ==
    LET note == resolved[((k - 1) \div 4) + 1]
        e    == log[k]
    IN CASE (k - 1) % 4 = 0 -> e.op = "write" /\ e.arg = note.freq
         [] (k - 1) % 4 = 1 -> e.op = "usleep" /\ e.arg = note.duration_usec
         [] (k - 1) % 4 = 2 -> e.op = "write" /\ e.arg = 0
         [] OTHER -> e.op = "usleep" /\ e.arg = note.duration_usec \div 4

\* C4: the log is, for each resolved note in order (rests included), the
\* four steps write freq, sleep duration_usec, write 0, sleep
\* duration_usec / 4; the sequence of a note is complete whenever the loop
\* looks for the next token or play() has returned, so the tone-off of a
\* note precedes the tone-on of the next and no note stays without one.
C4_ToneSequence ==
    /\ Len(log) <= 4 * Len(resolved)
    /\ \A k \in 1..Len(log) : EventInSequence(k)
    /\ Len(log) =
          CASE pc = "tone_on"  -> (4 * Len(resolved)) - 4
            [] pc = "hold"     -> (4 * Len(resolved)) - 3
            [] pc = "tone_off" -> (4 * Len(resolved)) - 2
            [] pc = "gap"      -> (4 * Len(resolved)) - 1
            [] OTHER           -> 4 * Len(resolved)

\* C4 witness: a run has ended after two notes, one of them a rest, each
\* with its four steps in the log.
C4_Witness ==
    /\ Returned
    /\ Len(resolved) = 2
    /\ \E k \in 1..2 : resolved[k].freq = 0
    /\ \E k \in 1..2 : resolved[k].freq # 0
    /\ Len(log) = 8

FailedWrites == {k \in 1..Len(log) : log[k].op = "write" /\ ~log[k].ok}

\* C5: once a device write has failed, no tone event is written after it
\* and play() returns a failure status.  [The claim as stated; the code
\* fails it.]
C5_WriteErrorFatal ==
    \A k \in FailedWrites :
        /\ \A j \in (k + 1)..Len(log) : log[j].op # "write"
        /\ Returned => status = -1

\* C6: on a line without any ':' play() does not trap: it returns a failure
\* status, and no tone event is written.  [The claim as stated; the code
\* fails it.]
C6_NoColonReported ==
    src.form = "bare"
    => (pc # "crashed" /\ Tones(log) = << >> /\ (Returned => status = -1))

(***************************************************************************)
(* C7: the reference resolver                                              *)
(***************************************************************************)

\* A->9/10, B->11/11, C->0/1, D->2/3, E->4/4, F->5/6, G->7/8.
RefCol(letter, sharp) ==
    CASE letter \in {"A", "a"} -> IF sharp = 1 THEN 10 ELSE 9
      [] letter \in {"B", "b"} -> 11
      [] letter \in {"C", "c"} -> IF sharp = 1 THEN 1 ELSE 0
      [] letter \in {"D", "d"} -> IF sharp = 1 THEN 3 ELSE 2
      [] letter \in {"E", "e"} -> 4
      [] letter \in {"F", "f"} -> IF sharp = 1 THEN 6 ELSE 5
      [] letter \in {"G", "g"} -> IF sharp = 1 THEN 8 ELSE 7

RefFreq(t, dflt_octave) ==
    IF t.letter \in {"P", "p"} THEN 0
    ELSE tone[((IF t.oct = 0 THEN dflt_octave ELSE t.oct) - 4) + 1]
             [RefCol(t.letter, t.sharp) + 1]

RefUsec(t, dflt_duration, b) ==
    LET wholeNoteMillis == 240000 \div b
        u    == IF t.units = 0 THEN dflt_duration ELSE t.units
        base == (wholeNoteMillis * 1000) \div u
    IN IF t.dot = 1 THEN base + (base \div 2) ELSE base

\* C7: on every token of the grammar, under every valid defaults triple,
\* parse_note() returns 0 with the frequency and the duration of the
\* reference resolver.
C7_ResolverAgrees ==
    pc = "note_done"
    => /\ status = 0
       /\ freq = RefFreq(src, defaults[Ord("o") - Ord("a")])
       /\ duration_usec = RefUsec(src, defaults[Ord("d") - Ord("a")],
                                  defaults[Ord("b") - Ord("a")])

\* C7 witness: a dotted sharp note with its own duration and octave has
\* been resolved.
C7_Witness ==
    /\ pc = "note_done"
    /\ src.units = 16 /\ src.letter = "a" /\ src.sharp = 1 /\ src.dot = 1
    /\ src.oct = 6
    /\ freq = 1865

\* C8: the value char_eq_num() stores in n is at most 999.  [The claim as
\* stated; the code fails it.]
C8_ValueCapped == n <= 999

\* The written note the loop is at, for the states right after parse_note().
AfterParse == pc \in {"skipped", "tone_on"}

Current == src.notes[i]

\* C9 as stated: a token parse_note() accepts, written with blanks before
\* and/or after it, is split out as the token itself, is accepted, and gets
\* the frequency and duration of the token.
C9_TokensTrimmed ==
    (AfterParse /\ NoteOf(Current.core).rc = 0)
    => /\ buf = Current.core
       /\ pc = "tone_on"
       /\ freq = NoteOf(Current.core).freq
       /\ duration_usec = NoteOf(Current.core).duration_usec

\* C9 as amended: the blanks before a token are dropped and those after it
\* are kept, so buf is the token followed by its trailing blanks; a token
\* parse_note() accepts, written with blanks before it only, is split out
\* as the token itself, is accepted, and gets its frequency and duration.
C9_LeadingBlanksTrimmed ==
    AfterParse
    => /\ buf = Current.core \o Blanks(Current.post)
       /\ (Current.post = 0 /\ NoteOf(Current.core).rc = 0)
          => /\ buf = Current.core
             /\ pc = "tone_on"
             /\ freq = NoteOf(Current.core).freq
             /\ duration_usec = NoteOf(Current.core).duration_usec

\* C9 witness: " c" has been split out as "c" and accepted.
C9_Witness ==
    /\ pc = "tone_on"
    /\ Current.pre > 0 /\ Current.post = 0
    /\ buf = Str(<< "c" >>)
    /\ freq = 523

\* C10: every index num[] is accessed with in parse_char_eq_num_str() is in
\* 0..25.  [The claim as stated; the code fails it.]
C10_IndexInBounds == used \subseteq Slots

====
